---- MODULE Spec2Model ----
(***************************************************************************)
(* Metro route finder (Assessment2.py): the Graph store, build_graph, and  *)
(* the two path finders find_shortest_path (breadth-first search) and      *)
(* find_fastest_path (Dijkstra with a lazy heap).                          *)
(*                                                                         *)
(* Strings are sequences of character codes, so that the identifier        *)
(* "name (line)", str.startswith and the ordering of strings are computed  *)
(* as Python computes them.                                                *)
(***************************************************************************)
EXTENDS Integers, Sequences, FiniteSets

VARIABLES
    nodes,      \* Graph.nodes: the keys of the dict, in insertion order
    edges,      \* Graph.edges: identifier -> sequence of <<neighbor, time>>
    pc,         \* which operation is running
    rows,       \* build_graph: the rows of the data frame, <<name, line>> each
    intra,      \* build_graph: the add_connection calls made at line 50
    transfer,   \* build_graph: the add_connection calls made at line 59
    start_ids,  \* finders: candidates for the start, in nodes order
    end_ids,    \* finders: candidates for the end, in nodes order
    visited,    \* find_shortest_path: set of identifiers
    parent,     \* find_shortest_path: identifier -> identifier or None
    queue,      \* the deque of find_shortest_path, the heap of find_fastest_path
    distances,  \* find_fastest_path: identifier -> distance or Infinity
    previous,   \* find_fastest_path: identifier -> identifier (partial)
    enqueued,   \* history: every identifier appended to the deque, in order
    result      \* the value returned by the finder

graphVars == <<nodes, edges>>
buildVars == <<rows, intra, transfer>>
findVars == <<start_ids, end_ids, visited, parent, queue, distances, previous,
              enqueued, result>>
vars == <<nodes, edges, pc, rows, intra, transfer, start_ids, end_ids, visited,
          parent, queue, distances, previous, enqueued, result>>

----------------------------------------------------------------------------
(* Bounds of the model *)

\* add_connection calls a caller makes before it asks for routes
MaxEdges == 2
\* add_connection calls recorded in a Graph store whose stations are re-added
MaxStoreEdges == 1
\* rows handed to build_graph
MaxRows == 3

----------------------------------------------------------------------------
(* Strings *)

\* Python's None; as a truth value it is false, like the empty string
None == <<>>

\* float('inf')
Infinity == -1

\* s.startswith(p)
StartsWith(s, p) == Len(p) <= Len(s) /\ SubSeq(s, 1, Len(p)) = p

\* s < t for Python strings: lexicographic on the character codes
RECURSIVE StrLess(_, _)
StrLess(s, t) ==
    IF t = <<>> THEN FALSE
    ELSE IF s = <<>> THEN TRUE
    ELSE IF Head(s) # Head(t) THEN Head(s) < Head(t)
    ELSE StrLess(Tail(s), Tail(t))

\* Station.id(): f"{name} ({line})"
Id(name, line) == name \o <<32, 40>> \o line \o <<41>>

\* Station names "A", "AB", "B" and line names "X", "Y", "Z" used as inputs
NameA == <<65>>
NameAB == <<65, 66>>
NameB == <<66>>
LineX == <<88>>
LineY == <<89>>
LineZ == <<90>>

\* rows in Python list order of a sequence
Range(s) == {s[i] : i \in 1..Len(s)}

----------------------------------------------------------------------------
(* Graph store *)

\* Graph.__init__
EmptyNodes == <<>>
EmptyEdges == <<>>

\* self.nodes[station.id()] = station: a new key goes last, an existing key
\* keeps its place
PutNode(n, id) == IF id \in Range(n) THEN n ELSE Append(n, id)

\* self.edges[station.id()] = []
ResetEdges(e, id) ==
    [k \in DOMAIN e \cup {id} |-> IF k = id THEN <<>> ELSE e[k]]

\* add_connection appending in one direction only
ConnectOneWay(e, from_id, to_id, time) ==
    [e EXCEPT ![from_id] = Append(@, <<to_id, time>>)]

\* Graph.add_connection: the two appends, in order
Connect(e, from_id, to_id, time) ==
    LET e1 == [e EXCEPT ![from_id] = Append(@, <<to_id, time>>)]
    IN  [e1 EXCEPT ![to_id] = Append(@, <<from_id, time>>)]

\* dict assignment f[k] = v
PutKey(f, k, v) == [x \in DOMAIN f \cup {k} |-> IF x = k THEN v ELSE f[x]]

\* the stations a caller of the Graph store registers
Stations == {<<NameA, LineX>>, <<NameAB, LineX>>, <<NameB, LineY>>}

\* the travel times a caller of add_connection passes
Times == {2, 8}

\* number of add_connection calls still recorded in the edge lists
RECURSIVE SumLen(_, _)
SumLen(e, ks) ==
    IF ks = {} THEN 0
    ELSE LET k == CHOOSE x \in ks : TRUE IN Len(e[k]) + SumLen(e, ks \ {k})

Entries(e) == SumLen(e, DOMAIN e)

\* Graph.add_station(station)
AddStation(station) ==
    /\ pc = "idle"
    /\ nodes' = PutNode(nodes, Id(station[1], station[2]))
    /\ edges' = ResetEdges(edges, Id(station[1], station[2]))
    /\ UNCHANGED <<pc, buildVars, findVars>>

\* Graph.add_connection(from_id, to_id, time), both identifiers registered
AddConnection(from_id, to_id, time) ==
    /\ pc = "idle"
    /\ from_id \in Range(nodes)
    /\ to_id \in Range(nodes)
    /\ edges' = Connect(edges, from_id, to_id, time)
    /\ UNCHANGED <<nodes, pc, buildVars, findVars>>

----------------------------------------------------------------------------
(* build_graph *)

\* random.randint(2, 8)
MinTime == 2
MaxTime == 8

\* the transfer time of line 59
TransferTime == 5

\* the (Station, Line) values a row of stations.csv takes here
RowValues == {<<NameA, LineX>>, <<NameAB, LineX>>, <<NameB, LineX>>,
              <<NameA, LineY>>, <<NameA, LineZ>>}

\* the data frames read by pd.read_csv: up to MaxRows rows, duplicates allowed
DataFrames == UNION {[1..n -> RowValues] : n \in 0..MaxRows}

\* sort_values: insertion into a sorted sequence, after its equals
RECURSIVE InsertSorted(_, _)
InsertSorted(x, s) ==
    IF s = <<>> THEN <<x>>
    ELSE IF StrLess(x, Head(s)) THEN <<x>> \o s
    ELSE <<Head(s)>> \o InsertSorted(x, Tail(s))

\* group.sort_values("Station"): ascending, rows with equal names kept
RECURSIVE SortValues(_)
SortValues(s) ==
    IF s = <<>> THEN <<>>
    ELSE InsertSorted(s[Len(s)], SortValues(SubSeq(s, 1, Len(s) - 1)))

\* the keys of df.groupby(column), which come sorted and without repeats
RECURSIVE Distinct(_)
Distinct(s) ==
    IF s = <<>> THEN <<>>
    ELSE LET d == Distinct(SubSeq(s, 1, Len(s) - 1)) IN
         IF s[Len(s)] \in Range(d) THEN d ELSE Append(d, s[Len(s)])

Column(df, c) == [i \in 1..Len(df) |-> df[i][c]]

GroupKeys(df, c) == SortValues(Distinct(Column(df, c)))

\* the rows of one group, in row order
Group(df, c, key) == SelectSeq(df, LAMBDA row : row[c] = key)

\* for _, row in df.iterrows(): graph.add_station(Station(...)) (lines 39-41)
RECURSIVE AddStations(_, _)
AddStations(g, df) ==
    IF df = <<>> THEN g
    ELSE AddStations([nodes |-> PutNode(g.nodes, Id(df[1][1], df[1][2])),
                      edges |-> ResetEdges(g.edges, Id(df[1][1], df[1][2]))],
                     Tail(df))

\* the pairs (a, b) of lines 46-48 for one line, in loop order
LinePairs(df, line) ==
    LET stations == SortValues(Column(Group(df, 2, line), 1)) IN
    [i \in 1..(Len(stations) - 1) |->
        <<Id(stations[i], line), Id(stations[i + 1], line)>>]

\* the pairs of the loop of lines 44-50, over the lines in groupby order
RECURSIVE IntraPlanOver(_, _)
IntraPlanOver(df, lines) ==
    IF lines = <<>> THEN <<>>
    ELSE LinePairs(df, Head(lines)) \o IntraPlanOver(df, Tail(lines))

IntraPlan(df) == IntraPlanOver(df, GroupKeys(df, 2))

\* the pairs (a, b) of lines 55-58 for one station name: i < j over the rows
RECURSIVE PairsOf(_, _)
PairsOf(name, lines) ==
    IF Len(lines) < 2 THEN <<>>
    ELSE [j \in 1..(Len(lines) - 1) |->
             <<Id(name, lines[1]), Id(name, lines[j + 1])>>]
         \o PairsOf(name, Tail(lines))

\* the pairs of the loop of lines 53-59, over the names in groupby order
RECURSIVE TransferPlanOver(_, _)
TransferPlanOver(df, names) ==
    IF names = <<>> THEN <<>>
    ELSE PairsOf(Head(names), Column(Group(df, 1, Head(names)), 2))
         \o TransferPlanOver(df, Tail(names))

TransferPlan(df) == TransferPlanOver(df, GroupKeys(df, 1))

\* graph = Graph() and the loop of lines 39-41
BuildStations ==
    /\ pc = "build_stations"
    /\ LET g == AddStations([nodes |-> nodes, edges |-> edges], rows) IN
       /\ nodes' = g.nodes
       /\ edges' = g.edges
    /\ pc' = "build_lines"
    /\ UNCHANGED <<buildVars, findVars>>

\* one pass of the inner loop of lines 46-50
BuildConnectLine(time) ==
    /\ pc = "build_lines"
    /\ Len(intra) < Len(IntraPlan(rows))
    /\ LET ab == IntraPlan(rows)[Len(intra) + 1] IN
       /\ edges' = Connect(edges, ab[1], ab[2], time)
       /\ intra' = Append(intra, <<ab[1], ab[2], time>>)
    /\ UNCHANGED <<nodes, pc, rows, transfer, findVars>>

\* the loop of lines 44-50 is over
BuildLinesDone ==
    /\ pc = "build_lines"
    /\ Len(intra) = Len(IntraPlan(rows))
    /\ pc' = "build_transfers"
    /\ UNCHANGED <<graphVars, buildVars, findVars>>

\* one pass of the inner loop of lines 56-59
BuildTransfer ==
    /\ pc = "build_transfers"
    /\ Len(transfer) < Len(TransferPlan(rows))
    /\ LET ab == TransferPlan(rows)[Len(transfer) + 1] IN
       /\ edges' = Connect(edges, ab[1], ab[2], TransferTime)
       /\ transfer' = Append(transfer, <<ab[1], ab[2], TransferTime>>)
    /\ UNCHANGED <<nodes, pc, rows, intra, findVars>>

\* return graph
BuildReturn ==
    /\ pc = "build_transfers"
    /\ Len(transfer) = Len(TransferPlan(rows))
    /\ pc' = "built"
    /\ UNCHANGED <<graphVars, buildVars, findVars>>

----------------------------------------------------------------------------
(* Candidate resolution, shared by the two finders *)

\* [sid for sid in graph.nodes if sid.startswith(name)]
Candidates(n, name) == SelectSeq(n, LAMBDA sid : StartsWith(sid, name))

\* the names typed at the prompt: "A" is a prefix of "A (X)" and of "AB (X)"
QueryNames == {NameA, NameAB, NameB}

\* path[::-1]
RECURSIVE Reverse(_)
Reverse(s) == IF s = <<>> THEN <<>> ELSE Append(Reverse(Tail(s)), Head(s))

\* q without its i-th element
RemoveAt(q, i) == SubSeq(q, 1, i - 1) \o SubSeq(q, i + 1, Len(q))

----------------------------------------------------------------------------
(* find_shortest_path *)

\* queue.popleft(): the index of the element taken
PopLeftIndex(q) == 1

\* neighbor not in visited
Unvisited(neighbor, vis) == neighbor \notin vis

\* an end test that is true when there are no end candidates
InEndOrNoEnd(current, ends) == ends = <<>> \/ current \in Range(ends)

\* an end test against the first end candidate only
InEndFirst(current, ends) == ends # <<>> /\ current = Head(ends)

\* current in end_ids
InEnd(current, ends) == current \in Range(ends)

\* while current: path.append(current); current = parent[current]
RECURSIVE WalkParent(_, _)
WalkParent(par, current) ==
    IF current = None THEN <<>>
    ELSE <<current>> \o WalkParent(par, par[current])

\* for neighbor, _ in graph.edges[current]: ... (lines 88-92)
RECURSIVE ExpandFrom(_, _, _)
ExpandFrom(st, current, es) ==
    IF es = <<>> THEN st
    ELSE LET neighbor == Head(es)[1] IN
         IF Unvisited(neighbor, st.visited)
         THEN ExpandFrom([visited  |-> st.visited \cup {neighbor},
                          parent   |-> PutKey(st.parent, neighbor, current),
                          queue    |-> Append(st.queue, neighbor),
                          enqueued |-> Append(st.enqueued, neighbor)],
                         current, Tail(es))
         ELSE ExpandFrom(st, current, Tail(es))

\* a seeding loop that stops after the first start candidate
SeedFirst(ids) == IF ids = <<>> THEN <<>> ELSE <<Head(ids)>>

\* for sid in start_ids: queue.append(sid) ... (lines 74-77): the deque
SeedAll(ids) == ids

\* find_shortest_path(graph, start_name, end_name) up to the loop
FindShortest(start_name, end_name) ==
    /\ pc = "idle"
    /\ start_ids' = Candidates(nodes, start_name)
    /\ end_ids' = Candidates(nodes, end_name)
    /\ queue' = SeedAll(start_ids')
    /\ visited' = Range(queue')
    /\ parent' = [sid \in Range(queue') |-> None]
    /\ enqueued' = queue'
    /\ pc' = "shortest"
    /\ UNCHANGED <<graphVars, buildVars, distances, previous, result>>

\* one iteration that finds current in end_ids and returns the path
ShortestReturn ==
    /\ pc = "shortest"
    /\ queue # <<>>
    /\ LET current == queue[PopLeftIndex(queue)] IN
       /\ InEnd(current, end_ids)
       /\ result' = Reverse(WalkParent(parent, current))
       /\ queue' = RemoveAt(queue, PopLeftIndex(queue))
    /\ pc' = "shortest_done"
    /\ UNCHANGED <<graphVars, buildVars, start_ids, end_ids, visited, parent,
                   distances, previous, enqueued>>

\* one iteration that expands current
ShortestExpand ==
    /\ pc = "shortest"
    /\ queue # <<>>
    /\ LET current == queue[PopLeftIndex(queue)]
           st == ExpandFrom([visited  |-> visited,
                             parent   |-> parent,
                             queue    |-> RemoveAt(queue, PopLeftIndex(queue)),
                             enqueued |-> enqueued],
                            current, edges[current])
       IN
       /\ ~InEnd(current, end_ids)
       /\ visited' = st.visited
       /\ parent' = st.parent
       /\ queue' = st.queue
       /\ enqueued' = st.enqueued
    /\ UNCHANGED <<graphVars, buildVars, pc, start_ids, end_ids, distances,
                   previous, result>>

\* the loop ends with the deque empty: return None
ShortestNoRoute ==
    /\ pc = "shortest"
    /\ queue = <<>>
    /\ result' = None
    /\ pc' = "shortest_done"
    /\ UNCHANGED <<graphVars, buildVars, start_ids, end_ids, visited, parent,
                   queue, distances, previous, enqueued>>

----------------------------------------------------------------------------
(* find_fastest_path *)

\* new_dist < distances[neighbor], on ints and float('inf')
DistLess(a, b) ==
    IF a = Infinity THEN FALSE
    ELSE IF b = Infinity THEN TRUE
    ELSE a < b

\* a relaxation test that also accepts an equal distance
DistLessOrEqual(a, b) == a = b \/ DistLess(a, b)

\* the relaxation test of line 119
Improves(new_dist, old) == DistLess(new_dist, old)

\* (d1, s1) < (d2, s2) for heap entries: Python's tuple order
EntryLess(x, y) == x[1] < y[1] \/ (x[1] = y[1] /\ StrLess(x[2], y[2]))

\* a queue that hands out its oldest entry
OldestIndex(q) == 1

\* heapq.heappop(queue): the index of the least entry
HeapPopIndex(q) ==
    CHOOSE i \in 1..Len(q) :
        \A j \in 1..Len(q) : j = i \/ EntryLess(q[i], q[j]) \/
                             (q[i] = q[j] /\ i < j)

\* previous.get(current)
Get(f, k) == IF k \in DOMAIN f THEN f[k] ELSE None

\* while current: path.append(current); current = previous.get(current)
RECURSIVE WalkPrevious(_, _)
WalkPrevious(prev, current) ==
    IF current = None THEN <<>>
    ELSE <<current>> \o WalkPrevious(prev, Get(prev, current))

\* for neighbor, time in graph.edges[current]: ... (lines 117-122)
RECURSIVE RelaxFrom(_, _, _, _)
RelaxFrom(st, current, current_dist, es) ==
    IF es = <<>> THEN st
    ELSE LET neighbor == Head(es)[1]
             new_dist == current_dist + Head(es)[2]
         IN
         IF Improves(new_dist, st.distances[neighbor])
         THEN RelaxFrom([distances |-> [st.distances EXCEPT ![neighbor] = new_dist],
                         previous  |-> PutKey(st.previous, neighbor, current),
                         queue     |-> Append(st.queue, <<new_dist, neighbor>>)],
                        current, current_dist, Tail(es))
         ELSE RelaxFrom(st, current, current_dist, Tail(es))

\* distances = {...} and the loop of lines 104-106
SeedFastest(n, ids) ==
    [distances |-> [sid \in Range(n) |->
                       IF sid \in Range(ids) THEN 0 ELSE Infinity],
     queue     |-> [i \in 1..Len(ids) |-> <<0, ids[i]>>]]

\* a seeding loop that stops after the first start candidate
SeedFastestFirst(n, ids) == SeedFastest(n, SeedFirst(ids))

\* lines 100 and 104-106
InitFastest(n, ids) == SeedFastest(n, ids)

\* find_fastest_path(graph, start_name, end_name) up to the loop
FindFastest(start_name, end_name) ==
    /\ pc = "idle"
    /\ start_ids' = Candidates(nodes, start_name)
    /\ end_ids' = Candidates(nodes, end_name)
    /\ distances' = InitFastest(nodes, start_ids').distances
    /\ previous' = <<>>
    /\ queue' = InitFastest(nodes, start_ids').queue
    /\ pc' = "fastest"
    /\ UNCHANGED <<graphVars, buildVars, visited, parent, enqueued, result>>

\* one iteration that pops an end candidate and returns (path, current_dist)
FastestReturn ==
    /\ pc = "fastest"
    /\ queue # <<>>
    /\ LET top == queue[HeapPopIndex(queue)] IN
       /\ InEnd(top[2], end_ids)
       /\ result' = <<Reverse(WalkPrevious(previous, top[2])), top[1]>>
       /\ queue' = RemoveAt(queue, HeapPopIndex(queue))
    /\ pc' = "fastest_done"
    /\ UNCHANGED <<graphVars, buildVars, start_ids, end_ids, visited, parent,
                   distances, previous, enqueued>>

\* one iteration that relaxes the edges of the popped node
FastestRelax ==
    /\ pc = "fastest"
    /\ queue # <<>>
    /\ LET top == queue[HeapPopIndex(queue)]
           st == RelaxFrom([distances |-> distances,
                            previous  |-> previous,
                            queue     |-> RemoveAt(queue, HeapPopIndex(queue))],
                           top[2], top[1], edges[top[2]])
       IN
       /\ ~InEnd(top[2], end_ids)
       /\ distances' = st.distances
       /\ previous' = st.previous
       /\ queue' = st.queue
    /\ UNCHANGED <<graphVars, buildVars, pc, start_ids, end_ids, visited,
                   parent, enqueued, result>>

\* the loop ends with the heap empty: return None, float('inf')
FastestNoRoute ==
    /\ pc = "fastest"
    /\ queue = <<>>
    /\ result' = <<None, Infinity>>
    /\ pc' = "fastest_done"
    /\ UNCHANGED <<graphVars, buildVars, start_ids, end_ids, visited, parent,
                   queue, distances, previous, enqueued>>

----------------------------------------------------------------------------
(* Specifications *)

NoSearch ==
    /\ start_ids = <<>>
    /\ end_ids = <<>>
    /\ visited = {}
    /\ parent = <<>>
    /\ queue = <<>>
    /\ distances = <<>>
    /\ previous = <<>>
    /\ enqueued = <<>>
    /\ result = None

NoBuild ==
    /\ rows = <<>>
    /\ intra = <<>>
    /\ transfer = <<>>

\* g = Graph()
InitStore ==
    /\ nodes = EmptyNodes
    /\ edges = EmptyEdges
    /\ pc = "idle"
    /\ NoBuild
    /\ NoSearch

NextStore ==
    \/ \E station \in Stations : AddStation(station)
    \/ \E a \in Range(nodes), b \in Range(nodes), t \in Times :
           Entries(edges) < 2 * MaxStoreEdges /\ AddConnection(a, b, t)

\* the Graph store under its own operations
SpecStore == InitStore /\ [][NextStore]_vars

\* a caller that registers its stations, then connects them, then asks for
\* routes: the order build_graph and main follow
Next ==
    \/ \E station \in Stations : Entries(edges) = 0 /\ AddStation(station)
    \/ \E a \in Range(nodes), b \in Range(nodes), t \in Times :
           Entries(edges) < 2 * MaxEdges /\ AddConnection(a, b, t)
    \/ \E s \in QueryNames, e \in QueryNames : FindShortest(s, e)
    \/ ShortestReturn
    \/ ShortestExpand
    \/ ShortestNoRoute
    \/ \E s \in QueryNames, e \in QueryNames : FindFastest(s, e)
    \/ FastestReturn
    \/ FastestRelax
    \/ FastestNoRoute

Spec == InitStore /\ [][Next]_vars

\* an iteration of the loop of a finder that has been called
LoopStep ==
    \/ ShortestReturn
    \/ ShortestExpand
    \/ ShortestNoRoute
    \/ FastestReturn
    \/ FastestRelax
    \/ FastestNoRoute

\* the interpreter keeps running a loop it has entered
LiveSpec == Spec /\ WF_vars(LoopStep)

\* build_graph called on a data frame
InitBuild ==
    /\ nodes = EmptyNodes
    /\ edges = EmptyEdges
    /\ pc = "build_stations"
    /\ rows \in DataFrames
    /\ intra = <<>>
    /\ transfer = <<>>
    /\ NoSearch

NextBuild ==
    \/ BuildStations
    \/ \E time \in MinTime..MaxTime : BuildConnectLine(time)
    \/ BuildLinesDone
    \/ BuildTransfer
    \/ BuildReturn

SpecBuild == InitBuild /\ [][NextBuild]_vars

----------------------------------------------------------------------------
(* Paths of the graph, computed from the edge lists alone *)

\* b is in the edge list of a
Adjacent(a, b) == \E i \in 1..Len(edges[a]) : edges[a][i][1] = b

\* the least time among the edges from a to b
MinWeight(a, b) ==
    LET ws == {edges[a][i][2] : i \in {j \in 1..Len(edges[a]) : edges[a][j][1] = b}}
    IN  CHOOSE w \in ws : \A v \in ws : w <= v

\* node sequences of up to Len(nodes) edges: every simple path is one of them
NodeSeqs == UNION {[1..n -> Range(nodes)] : n \in 1..(Len(nodes) + 1)}

IsPath(p) == \A i \in 1..(Len(p) - 1) : Adjacent(p[i], p[i + 1])

\* the paths from a start candidate to an end candidate
StartEndPaths ==
    {p \in NodeSeqs : /\ p[1] \in Range(start_ids)
                      /\ p[Len(p)] \in Range(end_ids)
                      /\ IsPath(p)}

\* the time of a path that takes the quickest edge at every step
RECURSIVE PathTime(_)
PathTime(p) ==
    IF Len(p) < 2 THEN 0 ELSE MinWeight(p[1], p[2]) + PathTime(Tail(p))

Overlap == Range(start_ids) \cap Range(end_ids)

HasDuplicates(s) == \E i, j \in 1..Len(s) : i < j /\ s[i] = s[j]

Count(s, x) == Cardinality({i \in 1..Len(s) : s[i] = x})

----------------------------------------------------------------------------
(* C1 *)

\* C1: when find_shortest_path returns a path, it is a path from a start
\* candidate to an end candidate and it has no more edges than any path of the
\* graph from a start candidate to an end candidate.
C1_FewestStops ==
    (pc = "shortest_done" /\ result # None) =>
        /\ result \in StartEndPaths
        /\ \A p \in StartEndPaths : Len(result) - 1 <= Len(p) - 1

\* a returned path of at least one stop that beats a longer path which leaves
\* from another start candidate
C1_Witness ==
    /\ pc = "shortest_done"
    /\ result # None
    /\ Len(result) >= 2
    /\ \E p \in StartEndPaths : Len(p) > Len(result) /\ p[1] # result[1]

----------------------------------------------------------------------------
(* C2 *)

Stale(entry) == DistLess(distances[entry[2]], entry[1])

----------------------------------------------------------------------------
(* C6 *)

\* C6: when start_name or end_name matches no identifier, find_shortest_path
\* returns None and find_fastest_path returns (None, inf); no lookup of the
\* loops can raise, as every queued identifier is a key of edges and every
\* neighbor is a key of distances.
C6_UnknownStation ==
    /\ (pc = "shortest_done" /\ (start_ids = <<>> \/ end_ids = <<>>)) =>
           result = None
    /\ (pc = "fastest_done" /\ (start_ids = <<>> \/ end_ids = <<>>)) =>
           result = <<None, Infinity>>
    /\ pc = "shortest" => \A sid \in Range(queue) : sid \in DOMAIN edges
    /\ pc = "fastest" =>
           \A i \in 1..Len(queue) :
               /\ queue[i][2] \in DOMAIN edges
               /\ \A j \in 1..Len(edges[queue[i][2]]) :
                      edges[queue[i][2]][j][1] \in DOMAIN distances

\* the least-time search ran from a connected start candidate with no end
\* candidate and returned the no-route value
C6_Witness ==
    /\ pc = "fastest_done"
    /\ end_ids = <<>>
    /\ start_ids # <<>>
    /\ \E sid \in Range(start_ids) : edges[sid] # <<>>
    /\ result = <<None, Infinity>>

----------------------------------------------------------------------------
(* C7 *)

\* C7: when a node is both a start and an end candidate, find_shortest_path
\* returns a one-node path and find_fastest_path a one-node path with cost 0,
\* the node being in both candidate sets.
C7_OverlappingCandidates ==
    /\ (pc = "shortest_done" /\ Overlap # {}) =>
           /\ result # None
           /\ Len(result) = 1
           /\ result[1] \in Overlap
    /\ (pc = "fastest_done" /\ Overlap # {}) =>
           /\ result[1] # None
           /\ Len(result[1]) = 1
           /\ result[1][1] \in Overlap
           /\ result[2] = 0

\* the first start candidate seeded is no end candidate and has an edge to
\* the node that is returned
C7_Witness ==
    /\ pc = "fastest_done"
    /\ Overlap # {}
    /\ start_ids[1] \notin Range(end_ids)
    /\ result[1] # None
    /\ Adjacent(start_ids[1], result[1][1])

----------------------------------------------------------------------------
(* C8 *)

\* C8: a finder returns the no-route value exactly when no path leads from a
\* start candidate to an end candidate; a returned cost is finite, and the
\* cost returned with None is inf.
C8_NoRouteIffUnreachable ==
    /\ pc = "shortest_done" => (result = None <=> StartEndPaths = {})
    /\ pc = "fastest_done" =>
           /\ result[1] = None <=> StartEndPaths = {}
           /\ result[1] = None <=> result[2] = Infinity

\* both names match, the search left the start candidates, and no route exists
C8_Witness ==
    /\ pc = "shortest_done"
    /\ start_ids # <<>>
    /\ end_ids # <<>>
    /\ Len(enqueued) > Len(start_ids)
    /\ result = None

----------------------------------------------------------------------------
(* C9 *)

\* no identifier is appended to the deque twice
EnqueuedOnce == ~HasDuplicates(enqueued)

\* the distance recorded for node n before the i-th of the entries pushed
RecordedBefore(pushed, i, n) ==
    LET earlier == {j \in 1..(i - 1) : pushed[j][2] = n} IN
    IF earlier = {} THEN distances[n]
    ELSE pushed[CHOOSE j \in earlier : \A k \in earlier : k <= j][1]

\* an iteration of find_fastest_path pushes an entry only on a strict decrease
\* of the recorded distance of its node
PushOnDecrease ==
    (pc = "fastest" /\ pc' = "fastest" /\ queue # <<>>) =>
        LET pushed == SubSeq(queue', Len(queue), Len(queue')) IN
        \A i \in 1..Len(pushed) :
            DistLess(pushed[i][1], RecordedBefore(pushed, i, pushed[i][2]))

Searching == pc \in {"shortest", "fastest"}
Returned == pc \in {"shortest_done", "fastest_done"}

\* the sum of the times in the edge lists of the identifiers ks
RECURSIVE SumTimes(_)
SumTimes(es) == IF es = <<>> THEN 0 ELSE Head(es)[2] + SumTimes(Tail(es))

RECURSIVE TotalTime(_)
TotalTime(ks) ==
    IF ks = {} THEN 0
    ELSE LET k == CHOOSE x \in ks : TRUE IN
         SumTimes(edges[k]) + TotalTime(ks \ {k})

\* a recorded distance as a number: inf counts as more than every path time
Finite(d) == IF d = Infinity THEN TotalTime(DOMAIN edges) + 1 ELSE d

RECURSIVE SumDistances(_)
SumDistances(ks) ==
    IF ks = {} THEN 0
    ELSE LET k == CHOOSE x \in ks : TRUE IN
         Finite(distances[k]) + SumDistances(ks \ {k})

\* what is left to do: the entries waiting, and twice the work that can still
\* add an entry (an unvisited node, a unit of recorded distance)
Remaining ==
    IF pc = "shortest"
    THEN Len(queue) + 2 * Cardinality(Range(nodes) \ visited)
    ELSE IF pc = "fastest"
    THEN Len(queue) + 2 * SumDistances(DOMAIN distances)
    ELSE 0

\* an iteration that does not return leaves strictly less to do
LoopDecreases ==
    (Searching /\ pc' = pc) => (Remaining' < Remaining /\ Remaining' >= 0)

\* C9: on every graph, with cycles, self-loops and parallel edges, a finder
\* that has been called terminates: while it searches an iteration can always
\* run, and every iteration either returns or strictly decreases a
\* non-negative measure; breadth-first search appends every identifier to the
\* deque at most once, and the least-time search pushes a heap entry only when
\* it strictly decreases the recorded distance of its node.
C9_Terminates ==
    /\ [](Searching => ENABLED LoopStep)
    /\ [][LoopDecreases]_vars
    /\ []EnqueuedOnce
    /\ [][PushOnDecrease]_vars

\* under the fair specification a finder that has been called returns
C9_EventuallyReturns == Searching ~> Returned

\* the least-time search emptied its heap on a graph where a start candidate
\* has a self-loop and an edge to a node it reached, and returned
C9_Witness ==
    /\ pc = "fastest_done"
    /\ queue = <<>>
    /\ \E sid \in Range(start_ids) : Adjacent(sid, sid)
    /\ \E sid \in Range(nodes) : distances[sid] # Infinity /\ distances[sid] > 0

----------------------------------------------------------------------------
(* C3 and C10: symmetry of the edge lists *)

\* (b, w) is in edges[a] as many times as (a, w) is in edges[b]
SymmetricCounts(e) ==
    \A a \in DOMAIN e : \A i \in 1..Len(e[a]) :
        LET b == e[a][i][1]
            w == e[a][i][2]
        IN  /\ b \in DOMAIN e
            /\ Count(e[a], <<b, w>>) = Count(e[b], <<a, w>>)

\* whenever (b, w) is in edges[a], (a, w) is in edges[b]
Symmetric(e) ==
    \A a \in DOMAIN e : \A i \in 1..Len(e[a]) :
        LET b == e[a][i][1]
            w == e[a][i][2]
        IN  /\ b \in DOMAIN e
            /\ \E j \in 1..Len(e[b]) : e[b][j] = <<a, w>>

\* C3: at every point of build_graph, duplicate rows included, (b, w) is in
\* edges[a] exactly as many times as (a, w) is in edges[b].
C3_BuiltSymmetric == SymmetricCounts(edges)

\* a graph built from rows with a duplicate, holding a self-loop and an edge
\* between two nodes
C3_Witness ==
    /\ pc = "built"
    /\ HasDuplicates(rows)
    /\ \E a \in DOMAIN edges : Adjacent(a, a)
    /\ \E a, b \in DOMAIN edges : a # b /\ Adjacent(a, b)

\* C10 as claimed: in every state reached by add_station and add_connection
\* calls, re-adding a connected station included, whenever (b, w) is in
\* edges[a], (a, w) is in edges[b].
C10_StoreSymmetric == Symmetric(edges)

\* id has an entry in its own list or in the list of another identifier
Connected(e, id) ==
    id \in DOMAIN e /\
    (e[id] # <<>> \/ \E a \in DOMAIN e : \E i \in 1..Len(e[a]) : e[a][i][1] = id)

\* the step is an add_station of an identifier that has connections
ReAddsConnected ==
    \E station \in Stations :
        /\ Connected(edges, Id(station[1], station[2]))
        /\ nodes' = PutNode(nodes, Id(station[1], station[2]))
        /\ edges' = ResetEdges(edges, Id(station[1], station[2]))

\* C10 as amended: add_connection between registered identifiers and
\* add_station of an identifier without connections keep the edge lists
\* symmetric; only an add_station of an identifier that has connections
\* breaks the symmetry.
C10_SymmetryKept ==
    [][(Symmetric(edges) /\ ~ReAddsConnected) => Symmetric(edges')]_vars

\* three registered stations, one of them re-added without harm, and a
\* symmetric edge between two of them
C10_Witness ==
    /\ Len(nodes) = 3
    /\ Symmetric(edges)
    /\ \E a, b \in DOMAIN edges : a # b /\ Adjacent(a, b) /\ Adjacent(b, a)

----------------------------------------------------------------------------
(* C4 and C5: the edges build_graph creates *)

\* the station names of a line, the lines of a station name
NamesOn(line) == {rows[i][1] : i \in {j \in 1..Len(rows) : rows[j][2] = line}}
LinesOf(name) == {rows[i][2] : i \in {j \in 1..Len(rows) : rows[j][1] = name}}

\* the connections of line 50 made for a line
IntraOf(line) ==
    SelectSeq(intra, LAMBDA c : \E n \in NamesOn(line) : c[1] = Id(n, line))

\* the connections of line 59 made for a station name
TransferOf(name) ==
    SelectSeq(transfer, LAMBDA c : \E l \in LinesOf(name) : c[1] = Id(name, l))

\* n1 and n2 are neighbors in the ascending order of the names of a line
AdjacentNames(names, n1, n2) ==
    /\ StrLess(n1, n2)
    /\ ~\E n3 \in names : StrLess(n1, n3) /\ StrLess(n3, n2)

IntraEdgesOf(line) ==
    LET names == NamesOn(line)
        k == Cardinality(names)
        made == IntraOf(line)
    IN  k >= 2 =>
          /\ Len(made) = k - 1
          /\ \A i \in 1..Len(made) :
                /\ \E n1, n2 \in names :
                      /\ made[i][1] = Id(n1, line)
                      /\ made[i][2] = Id(n2, line)
                      /\ AdjacentNames(names, n1, n2)
                /\ made[i][3] \in MinTime..MaxTime
                /\ Count(edges[made[i][1]], <<made[i][2], made[i][3]>>) >= 1

\* C4: a line with k >= 2 stations gets exactly k-1 intra-line edges, each
\* between two stations adjacent in ascending name order, with a time in 2..8.
C4_IntraLineEdges ==
    pc = "built" => \A line \in Range(Column(rows, 2)) : IntraEdgesOf(line)

\* C4 on data frames without a repeated row
C4_WithoutDuplicates ==
    (pc = "built" /\ ~HasDuplicates(rows)) =>
        \A line \in Range(Column(rows, 2)) : IntraEdgesOf(line)

TransferEdgesOf(name) ==
    LET lines == LinesOf(name)
        L == Cardinality(lines)
        made == TransferOf(name)
    IN  /\ Len(made) * 2 = L * (L - 1)
        /\ \A i \in 1..Len(made) : made[i][3] = TransferTime
        /\ \A l1, l2 \in lines :
              l1 # l2 =>
                Cardinality({i \in 1..Len(made) :
                                {made[i][1], made[i][2]} =
                                {Id(name, l1), Id(name, l2)}}) = 1

\* C5: a station name on L >= 2 lines gets exactly L*(L-1)/2 transfer edges
\* of time 5, one for every unordered pair of its lines, and a station name on
\* one line gets none.
C5_TransferEdges ==
    pc = "built" => \A name \in Range(Column(rows, 1)) : TransferEdgesOf(name)

\* C5 on data frames without a repeated row
C5_WithoutDuplicates ==
    (pc = "built" /\ ~HasDuplicates(rows)) =>
        \A name \in Range(Column(rows, 1)) : TransferEdgesOf(name)

====
